---- MODULE Spec2Model ----
(***************************************************************************)
(* A model of the odoo command line client (bin/odoo_api.py): the API-key  *)
(* client OdooApi, its response filters, the bulk export config_dump and   *)
(* the dispatch in __main__.                                               *)
(*                                                                         *)
(* Three specifications:                                                   *)
(*   Spec        one process run: parse, construct, dispatch, the method   *)
(*               with its request(s) and the server's answers, exit.       *)
(*   FilterSpec  the two response filters as pure functions over a bounded *)
(*               set of record lists.                                      *)
(*   LegacySpec  one process run of the older JSON-RPC client              *)
(*               (bin/odoo-api-jsonrpc.py): parse, database detection,     *)
(*               authentication, dispatch, execute_kw, exit.               *)
(***************************************************************************)
EXTENDS Integers, Sequences, FiniteSets, TLC

VARIABLES
    pc,       \* position of the process: "parse", "construct", "dispatch", "call", "dump", "exit"
    args,     \* the namespace parse_args() returned
    odoo,     \* the OdooApi instance (NoClient before construction)
    net,      \* the requests issued so far (each one call of requests.post)
    pending,  \* which method waits for the answer of the request in flight
    ret,      \* the value the dispatched method returned
    exc,      \* the exception that left the program ("none" when none did)
    stdout,   \* what was printed
    logs,     \* the lines logged with logger.error
    files,    \* the files written by config_dump: path -> content
    idx,      \* config_dump: index of the resource of the current iteration
    resp,     \* the answer to the request of a method that issues one request
    passed,   \* the keyword arguments cli_wrapper called the method with
    fin,      \* FilterSpec: the records given to show or _cleanup_dump_data
    fout,     \* FilterSpec: what the last application returned
    fprev,    \* FilterSpec: what the application before the last returned
    fop,      \* FilterSpec: the filter applied ("none", "show", "cleanup")
    fmodel,   \* FilterSpec: the model argument of _cleanup_dump_data
    fverbose, \* FilterSpec: the verbose argument of show
    fcount,   \* FilterSpec: how many times the filter was applied
    lpc,      \* LegacySpec: position of the process
    largs,    \* LegacySpec: the namespace parse_args() returned
    ldatabase,\* LegacySpec: the local database of __main__
    lodoo,    \* LegacySpec: the odoo_api instance (uid unset until _auth returned)
    lnet,     \* LegacySpec: the requests issued so far
    lcall,    \* LegacySpec: the request in flight or last answered
    lresp,    \* LegacySpec: the answer to the last request
    lret,     \* LegacySpec: the value the dispatched method returned
    lexc,     \* LegacySpec: the exception that left the program
    lstdout   \* LegacySpec: what was printed

mainVars == <<pc, args, odoo, net, pending, ret, exc, stdout, logs, files, idx, resp, passed>>
filterVars == <<fin, fout, fprev, fop, fmodel, fverbose, fcount>>
legacyVars == <<lpc, largs, ldatabase, lodoo, lnet, lcall, lresp, lret, lexc, lstdout>>
vars == <<pc, args, odoo, net, pending, ret, exc, stdout, logs, files, idx, resp, passed,
          fin, fout, fprev, fop, fmodel, fverbose, fcount,
          lpc, largs, ldatabase, lodoo, lnet, lcall, lresp, lret, lexc, lstdout>>

(***************************************************************************)
(* Bounds of the model.                                                    *)
(***************************************************************************)
\* the longest record list a filter is given in FilterSpec
MaxRecords == 2
\* the longest fiscal_country_group_codes list
MaxLen == 2

(***************************************************************************)
(* JSON / Python values.  Every value has the same shape, so that values   *)
(* of different Python types can be compared: kind is the Python type, n   *)
(* the number of a bool/int/float, s the text of a str, items the elements *)
(* of a list and d the mapping of a dict (field order is not modelled).    *)
(***************************************************************************)
J(kind, n, s, items, d) == [kind |-> kind, n |-> n, s |-> s, items |-> items, d |-> d]
JNull == J("null", 0, "", <<>>, <<>>)
JBool(b) == J("bool", IF b THEN 1 ELSE 0, "", <<>>, <<>>)
JInt(i) == J("int", i, "", <<>>, <<>>)
JFloat(i) == J("float", i, "", <<>>, <<>>)
JStr(s) == J("str", 0, s, <<>>, <<>>)
JList(items) == J("list", 0, "", items, <<>>)
JDict(d) == J("dict", 0, "", <<>>, d)

\* Python's ==: bool is a subclass of int and int compares with float by
\* value, so False == 0 == 0.0 and True == 1 == 1.0; values of other types
\* are equal when they have the same type and content.
PyNumeric(v) == v.kind \in {"bool", "int", "float"}
PyEq(a, b) ==
    IF PyNumeric(a) /\ PyNumeric(b) THEN a.n = b.n ELSE a = b

\* Python's "v in (t1, .., tn)": some element equals v.
PyIn(v, tuple) == \E i \in DOMAIN tuple : PyEq(v, tuple[i])

\* A dict without the given key: dict.pop(key, None).
DictPop(d, key) == [k \in (DOMAIN d) \ {key} |-> d[k]]
\* A dict with d[key] = value.
DictSet(d, key, value) == [k \in (DOMAIN d) \cup {key} |-> IF k = key THEN value ELSE d[k]]

(***************************************************************************)
(* The sparse filter of show(): the list comprehension of its last line.   *)
(***************************************************************************)
SparseTuple == <<JStr(""), JList(<<>>), JNull, JInt(0), JFloat(0)>>

SparseRecord(record) ==
    [k \in {x \in DOMAIN record : ~PyIn(record[x], SparseTuple)} |-> record[k]]

SparseFilter(result) ==
    JList([i \in DOMAIN result.items |-> JDict(SparseRecord(result.items[i].d))])

(***************************************************************************)
(* sorted() on a list of country group codes.  Python compares str by code *)
(* point; CodeRank is that order on the codes of the model.                *)
(***************************************************************************)
Codes == {"EU", "SEPA"}
CodeRank == ("EU" :> 1) @@ ("SEPA" :> 2)
PyLessEq(a, b) == CodeRank[a.s] <= CodeRank[b.s]

RECURSIVE Insert(_, _)
Insert(x, sortedSeq) ==
    IF sortedSeq = <<>> THEN <<x>>
    ELSE IF PyLessEq(Head(sortedSeq), x)
         THEN <<Head(sortedSeq)>> \o Insert(x, Tail(sortedSeq))
         ELSE <<x>> \o sortedSeq

RECURSIVE SortedSeq(_)
SortedSeq(seq) ==
    IF seq = <<>> THEN <<>>
    ELSE Insert(seq[Len(seq)], SortedSeq(SubSeq(seq, 1, Len(seq) - 1)))

Sorted(v) == JList(SortedSeq(v.items))

(***************************************************************************)
(* The dump noise filter _cleanup_dump_data(model, data).                  *)
(***************************************************************************)
\* faulty variants of CleanupEntry: one that leaves the graph field, one that
\* does not sort the codes, one that drops the graph field for every resource
CleanupKeepGraph(model, entry) ==
    IF model = "res.users" /\ "fiscal_country_group_codes" \in DOMAIN entry
    THEN DictSet(entry, "fiscal_country_group_codes", Sorted(entry["fiscal_country_group_codes"]))
    ELSE entry

CleanupNoSort(model, entry) ==
    IF model = "account.journal" THEN DictPop(entry, "kanban_dashboard_graph")
    ELSE entry

CleanupPopEverywhere(model, entry) ==
    IF model = "res.users" /\ "fiscal_country_group_codes" \in DOMAIN entry
    THEN DictSet(entry, "fiscal_country_group_codes", Sorted(entry["fiscal_country_group_codes"]))
    ELSE DictPop(entry, "kanban_dashboard_graph")

CleanupEntry(model, entry) ==
    IF model = "account.journal" THEN DictPop(entry, "kanban_dashboard_graph")
    ELSE IF model = "res.users" /\ "fiscal_country_group_codes" \in DOMAIN entry
    THEN DictSet(entry, "fiscal_country_group_codes", Sorted(entry["fiscal_country_group_codes"]))
    ELSE entry

_cleanup_dump_data(model, data) ==
    JList([i \in DOMAIN data.items |-> JDict(CleanupEntry(model, data.items[i].d))])

(***************************************************************************)
(* Python truthiness, as used by "if self.db:", "if kwargs:", "if domain:",*)
(* "if json:", "if args:", "if output_directory:", "if json_format:".      *)
(***************************************************************************)
Truthy(v) ==
    CASE v.kind = "null" -> FALSE
      [] PyNumeric(v) -> v.n # 0
      [] v.kind = "str" -> v.s # ""
      [] v.kind = "list" -> v.items # <<>>
      [] v.kind = "dict" -> v.d # <<>>
      [] OTHER -> TRUE

\* a pathlib.Path (always true) and an open text file with its content
JPath(s) == J("path", 0, s, <<>>, <<>>)
JFile(content) == J("file", 0, content, <<>>, <<>>)

(***************************************************************************)
(* The client: OdooApi.__init__, _call and call.                           *)
(***************************************************************************)
UserAgent == "odoo_api python-requests"

NoClient == [baseurl |-> "", apiurl |-> "", api_key |-> "", db |-> JNull, headers |-> <<>>]

BaseHeaders(api_key) ==
    ("User-Agent" :> UserAgent) @@ ("Authorization" :> ("bearer " \o api_key))

\* a faulty variant of OdooApi that sets X-Odoo-Database without testing self.db
OdooApiDbAlways(url, api_key, db) ==
    [baseurl |-> url, apiurl |-> url \o "/json/2", api_key |-> api_key, db |-> db,
     headers |-> BaseHeaders(api_key) @@ ("X-Odoo-Database" :> db.s)]

OdooApi(url, api_key, db) ==
    [baseurl |-> url,
     apiurl |-> url \o "/json/2",
     api_key |-> api_key,
     db |-> db,
     headers |-> IF Truthy(db)
                 THEN BaseHeaders(api_key) @@ ("X-Odoo-Database" :> db.s)
                 ELSE BaseHeaders(api_key)]

\* str(v) of a value put into an f-string
PyStr(v) ==
    CASE v.kind \in {"str", "path"} -> v.s
      [] v.kind = "null" -> "None"
      [] v.kind = "bool" -> IF v.n = 1 THEN "True" ELSE "False"

\* a faulty variant of _call that posts {} whatever the kwargs
_callNoBody(self, url, odoo_model, odoo_method, kwargs) ==
    [method |-> "POST",
     url |-> url \o "/" \o odoo_model \o "/" \o odoo_method,
     headers |-> self.headers,
     json |-> JDict(<<>>)]

\* the one requests.post of _call: data is {} or a copy of kwargs
_call(self, url, odoo_model, odoo_method, kwargs) ==
    [method |-> "POST",
     url |-> url \o "/" \o odoo_model \o "/" \o odoo_method,
     headers |-> self.headers,
     json |-> JDict(IF kwargs # <<>> THEN kwargs ELSE <<>>)]

call(self, odoo_model, odoo_method, kwargs) ==
    _call(self, self.apiurl, odoo_model, odoo_method, kwargs)

\* response.raise_for_status(): HTTPError for a 4xx or a 5xx status
RaisesForStatus(status) == 400 <= status /\ status < 600

(***************************************************************************)
(* The methods of the client behind the dispatch table: the request each   *)
(* one issues, given the keyword arguments cli_wrapper passes.             *)
(***************************************************************************)
\* _dump(model, domain=None, fields=None, order=None)
_dump(self, model, domain, fields, order) ==
    call(self, model, "search_read",
         ("domain" :> (IF Truthy(domain) THEN domain ELSE JList(<<>>)))
         @@ ("fields" :> fields) @@ ("order" :> order))

get_databases(self) == _call(self, self.baseurl, "web", "database/list", <<>>)

get_user_context(self) == call(self, "res.users", "context_get", <<>>)

get_customers(self) ==
    call(self, "res.partner", "search_read",
         ("domain" :> JList(<<JList(<<JStr("customer_rank"), JStr(">"), JInt(0)>>)>>))
         @@ ("fields" :> JList(<<JStr("name"), JStr("email")>>))
         @@ ("limit" :> JInt(10)))

get_active_subscriptions(self) == call(self, "res.partner", "get_active_subscriptions_api", <<>>)

get_subscription_credentials(self, evaluation) ==
    call(self, "res.partner", "get_subscription_credentials_api", ("evaluation" :> evaluation))

get_support_customers(self) == call(self, "res.partner", "get_support_customers_api", <<>>)

search_list(self, model) ==
    _dump(self, PyStr(model), JNull,
          JList(<<JStr("id"), JStr("name"), JStr("display_name")>>), JStr("id ASC"))

dump(self, model) == _dump(self, PyStr(model), JNull, JNull, JNull)

\* the request of show(); its result is ShowResult below
show(self, model, id) ==
    _dump(self, PyStr(model), JList(<<JList(<<JStr("id"), JStr("="), id>>)>>), JNull, JNull)

reinit(self, model) == call(self, PyStr(model), "recompute_fields", <<>>)

create(self, model, createArgs) ==
    call(self, PyStr(model), "create", ("vals_list" :> JList(<<createArgs>>)))

mail_add(self, model, email) ==
    call(self, "mail.thread", "message_process",
         ("model" :> model) @@ ("message" :> JStr(email.s)))

\* raw(model, method, json=None, args=None): args overwrite json
RawKwargs(json, rawArgs) ==
    LET fromJson == IF Truthy(json) THEN json.d ELSE <<>>
        fromArgs == IF Truthy(rawArgs) THEN rawArgs.d ELSE <<>>
    IN  fromArgs @@ fromJson

raw(self, model, method, json, rawArgs) ==
    call(self, PyStr(model), PyStr(method), RawKwargs(json, rawArgs))

\* a faulty variant of ShowResult with the test of verbose inverted
ShowResultSwapped(verbose, result) ==
    IF Truthy(verbose) THEN SparseFilter(result) ELSE result

\* what show(model, id, verbose) returns for the result of its _dump
ShowResult(verbose, result) ==
    IF Truthy(verbose) THEN result ELSE SparseFilter(result)

(***************************************************************************)
(* The namespaces parse_args() can return (get_argparser): the global      *)
(* options and the options of the chosen subcommand.  An option that was   *)
(* not given holds its default (None unless the parser says otherwise).    *)
(***************************************************************************)
DefaultUrl == "https://bareos.odoo.com"
\* the --database and --apikey of a run: every database case (not given, empty,
\* a name) and every key case (empty, two different keys)
Connections ==
    {[database |-> JNull, apikey |-> "k1"],
     [database |-> JStr(""), apikey |-> "k1"],
     [database |-> JStr("odoodb"), apikey |-> "k2"],
     [database |-> JNull, apikey |-> ""]}
CliModel == "res.partner"
ExampleArgs == JDict(("name" :> JStr("Example User")))
ExampleJson == JDict(("name" :> JStr("From Json")) @@ ("order" :> JStr("id ASC")))

GlobalArgs(verbose, database, apikey, command) ==
    ("debug" :> JBool(FALSE)) @@ ("verbose" :> JBool(verbose))
    @@ ("url" :> JStr(DefaultUrl)) @@ ("database" :> database)
    @@ ("apikey" :> JStr(apikey)) @@ ("command" :> command)

SubArgs(command) ==
    CASE command \in {"identity", "databases", "customers", "active_subscriptions",
                      "support_customers"} -> {<<>>}
      [] command = "subscription_credentials" ->
            {("evaluation" :> e) : e \in {JNull, JBool(TRUE), JBool(FALSE)}}
      [] command \in {"list", "dump", "reinit"} -> {("model" :> JStr(CliModel))}
      [] command = "show" -> {("model" :> JStr(CliModel)) @@ ("id" :> JStr("7"))}
      [] command = "create" ->
            {("model" :> JStr(CliModel)) @@ ("args" :> a) : a \in {JNull, ExampleArgs}}
      [] command = "mail-add" ->
            {("model" :> m) @@ ("email" :> JFile("raw message")) :
                m \in {JBool(FALSE), JStr("crm.lead")}}
      [] command = "config-dump" ->
            {("output_directory" :> o) @@ ("json_format" :> JBool(j)) :
                o \in {JNull, JPath("out")}, j \in BOOLEAN}
      [] command = "call" ->
            {("model" :> JStr(CliModel)) @@ ("method" :> JStr("search_read"))
             @@ ("json" :> j) @@ ("args" :> a) :
                j \in {JNull, ExampleJson}, a \in {JNull, ExampleArgs}}

\* the subcommands of the parser
Subcommands ==
    {"identity", "databases", "list", "show", "dump", "reinit", "create", "customers",
     "active_subscriptions", "subscription_credentials", "support_customers",
     "mail-add", "config-dump", "call"}

\* -v matters to show alone; the other commands are run without it
Namespaces ==
    UNION {
        {GlobalArgs(v, conn.database, conn.apikey, JStr(c)) @@ sub :
            v \in (IF c = "show" THEN BOOLEAN ELSE {FALSE}),
            conn \in Connections, sub \in SubArgs(c)} : c \in Subcommands}
    \cup {GlobalArgs(FALSE, conn.database, conn.apikey, JNull) : conn \in Connections}

(***************************************************************************)
(* The dispatch table of __main__ and cli_wrapper.                         *)
(***************************************************************************)
method_map ==
    ("identity" :> "get_user_context") @@ ("databases" :> "get_databases")
    @@ ("customers" :> "get_customers")
    @@ ("active_subscriptions" :> "get_active_subscriptions")
    @@ ("subscription_credentials" :> "get_subscription_credentials")
    @@ ("support_customers" :> "get_support_customers")
    @@ ("list" :> "search_list") @@ ("show" :> "show") @@ ("dump" :> "dump")
    @@ ("reinit" :> "reinit") @@ ("create" :> "create") @@ ("mail-add" :> "mail_add")
    @@ ("config-dump" :> "config_dump") @@ ("call" :> "raw")

\* inspect.signature(method): the parameters and those without a default
Signature(method) ==
    CASE method \in {"search_list", "dump", "reinit"} ->
            [params |-> {"model"}, required |-> {"model"}]
      [] method = "show" ->
            [params |-> {"model", "id", "verbose"}, required |-> {"model", "id", "verbose"}]
      [] method = "create" ->
            [params |-> {"model", "args"}, required |-> {"model", "args"}]
      [] method = "mail_add" ->
            [params |-> {"model", "email"}, required |-> {"model", "email"}]
      [] method = "get_subscription_credentials" ->
            [params |-> {"evaluation"}, required |-> {}]
      [] method = "config_dump" ->
            [params |-> {"json_format", "output_directory"}, required |-> {}]
      [] method = "raw" ->
            [params |-> {"model", "method", "json", "args"}, required |-> {"model", "method"}]
      [] OTHER -> [params |-> {}, required |-> {}]

\* a faulty variant of cli_wrapper that does not look at the signature
cli_wrapperPassAll(method, ns) ==
    [k \in {x \in DOMAIN ns : ns[x] # JNull} |-> ns[k]]

\* the kwargs cli_wrapper builds from vars(args)
cli_wrapper(method, ns) ==
    [k \in {x \in DOMAIN ns : x \in Signature(method).params /\ ns[x] # JNull} |-> ns[k]]

\* method(**kwargs) raises TypeError when a parameter without default is missing
BindFails(method, kwargs) == Signature(method).required \ (DOMAIN kwargs) # {}

\* the value of a parameter: the keyword argument, else the default None
Param(kwargs, name) == IF name \in DOMAIN kwargs THEN kwargs[name] ELSE JNull

\* the command as printed by the f-string of the unsupported branch
CommandText(command) == IF command.kind = "null" THEN "None" ELSE command.s

\* a faulty variant of Unsupported that does not print the help
UnsupportedNoHelp(command) ==
    <<[kind |-> "print", text |-> "unsupported command '" \o CommandText(command) \o "'\n",
       data |-> JNull]>>

\* what the else branch of the dispatch prints
Unsupported(command) ==
    <<[kind |-> "print", text |-> "unsupported command '" \o CommandText(command) \o "'\n",
       data |-> JNull],
      [kind |-> "print_help", text |-> "", data |-> JNull]>>

\* the request of the methods that issue one request and return its result
MethodRequest(method, self, kw) ==
    CASE method = "get_user_context" -> get_user_context(self)
      [] method = "get_databases" -> get_databases(self)
      [] method = "get_customers" -> get_customers(self)
      [] method = "get_active_subscriptions" -> get_active_subscriptions(self)
      [] method = "get_subscription_credentials" ->
            get_subscription_credentials(self, Param(kw, "evaluation"))
      [] method = "get_support_customers" -> get_support_customers(self)
      [] method = "search_list" -> search_list(self, kw["model"])
      [] method = "show" -> show(self, kw["model"], kw["id"])
      [] method = "dump" -> dump(self, kw["model"])
      [] method = "reinit" -> reinit(self, kw["model"])
      [] method = "create" -> create(self, kw["model"], kw["args"])
      [] method = "mail_add" -> mail_add(self, kw["model"], kw["email"])
      [] method = "raw" ->
            raw(self, kw["model"], kw["method"], Param(kw, "json"), Param(kw, "args"))

(***************************************************************************)
(* The server: what requests.post can give for a request.                  *)
(***************************************************************************)
\* the most HTTPError failures one run of config_dump meets
MaxFailures == 1

NoValue == J("novalue", 0, "", <<>>, <<>>)
\* a response body that is not JSON
NotJson == J("notjson", 0, "<html>", <<>>, <<>>)
NoResp == [kind |-> "none", status |-> 0, body |-> JNull]
ConnectionFailure == [kind |-> "ConnectionError", status |-> 0, body |-> JNull]

\* the status codes of the model: success, a final 3xx, client and server error
Statuses == {200, 300, 404, 500}

Partner1 ==
    JDict(("id" :> JInt(7)) @@ ("name" :> JStr("x")) @@ ("active" :> JBool(FALSE))
          @@ ("comment" :> JStr("")) @@ ("child_ids" :> JList(<<>>))
          @@ ("parent_id" :> JNull) @@ ("color" :> JInt(0)) @@ ("credit" :> JFloat(0)))
Partner2 ==
    JDict(("id" :> JInt(8)) @@ ("name" :> JStr("")) @@ ("active" :> JBool(TRUE)))

SearchReadBodies == {JList(<<>>), JList(<<Partner1>>), JList(<<Partner2, Partner1>>)}

DatabaseListBodies ==
    {JDict(("jsonrpc" :> JStr("2.0")) @@ ("id" :> JNull)
           @@ ("result" :> JList(<<JStr("odoodb")>>))),
     JDict(("jsonrpc" :> JStr("2.0")) @@ ("id" :> JNull)
           @@ ("error" :> JDict(("code" :> JInt(200)))))}

OtherBodies == {JBool(TRUE), JDict(("lang" :> JStr("en_US")))}

\* what search_read gives for a resource of the bulk export
DumpBodies(model) ==
    CASE model = "account.journal" ->
            {JList(<<JDict(("id" :> JInt(1)) @@ ("kanban_dashboard_graph" :> JStr("[graph]"))),
                     JDict(("id" :> JInt(2)))>>)}
      [] model = "res.users" ->
            {JList(<<JDict(("id" :> JInt(2))
                           @@ ("fiscal_country_group_codes" :> JList(<<JStr("SEPA"), JStr("EU")>>))),
                     JDict(("id" :> JInt(3)))>>)}
      [] OTHER -> {JList(<<JDict(("id" :> JInt(1)))>>)}

BodiesFor(method) ==
    CASE method = "get_databases" -> DatabaseListBodies
      [] method \in {"get_customers", "search_list", "show", "dump", "raw"} -> SearchReadBodies
      [] OTHER -> OtherBodies

\* the answers to one request: no connection, an error status, or a body
Responses(bodies) ==
    {ConnectionFailure}
    \cup {[kind |-> "response", status |-> st, body |-> NotJson] :
             st \in {x \in Statuses : x >= 400}}
    \cup {[kind |-> "response", status |-> st, body |-> b] :
             st \in {x \in Statuses : x < 400}, b \in bodies \cup {NotJson}}

\* the outcome of _call after requests.post: the exception raised, or the parsed body
_callOutcome(r) ==
    CASE r.kind = "ConnectionError" -> [exc |-> "ConnectionError", value |-> NoValue]
      [] r.kind = "response" /\ RaisesForStatus(r.status) ->
            [exc |-> "HTTPError", value |-> NoValue]
      [] r.kind = "response" /\ ~RaisesForStatus(r.status) /\ r.body = NotJson ->
            [exc |-> "JSONDecodeError", value |-> NoValue]
      [] OTHER -> [exc |-> "none", value |-> r.body]

\* what the method makes of the outcome of its request
MethodOutcome(method, kw, r) ==
    LET o == _callOutcome(r) IN
    IF o.exc # "none" THEN o
    ELSE CASE method = "get_databases" ->
                 IF "result" \in DOMAIN o.value.d
                 THEN [exc |-> "none", value |-> o.value.d["result"]]
                 ELSE [exc |-> "KeyError", value |-> NoValue]
           [] method = "show" ->
                 [exc |-> "none", value |-> ShowResult(kw["verbose"], o.value)]
           [] OTHER -> o

(***************************************************************************)
(* config_dump: the resources of the bulk export, in order.                *)
(***************************************************************************)
models ==
    <<"ir.config_parameter", "ir.module.module", "res.company", "res.lang",
      "res.partner.category", "account.account", "account.journal",
      "product.category", "product.product", "product.pricelist",
      "product.pricelist.item", "sale.order.template", "sale.subscription.plan",
      "mail.template", "res.users", "res.users.settings", "res.users.apikeys">>

\* a faulty variant of DumpRequest that restricts no resource to a domain
DumpRequestNoDomain(self, model) == _dump(self, model, JNull, JNull, JStr("id ASC"))

\* the request of one iteration: self._dump(model, domain=domain, order=order)
DumpRequest(self, model) ==
    _dump(self, model,
          IF model = "ir.module.module"
          THEN JList(<<JList(<<JStr("state"), JStr("="), JStr("installed")>>)>>)
          ELSE JNull,
          JNull, JStr("id ASC"))

\* the except clause of config_dump
Caught(e) == e = "HTTPError"

\* a faulty variant of Sink that prints whatever the output directory
SinkAlwaysStdout(output_directory) == "stdout"

\* `if output_directory:` chooses where the result of a resource goes
Sink(output_directory) == IF Truthy(output_directory) THEN "file" ELSE "stdout"

(***************************************************************************)
(* The older JSON-RPC client (bin/odoo-api-jsonrpc.py): its parser, the    *)
(* class odoo_api with json_rpc, _auth and execute_kw, and get_db_name.    *)
(***************************************************************************)
LegacyUser == "admin@example.com"
LegacyKey == "k1"
\* --database and --db_name_endpoint_token of a run: a name, a token, neither
LegacyConnections ==
    {[database |-> JStr("odoodb"), token |-> JNull],
     [database |-> JNull, token |-> JStr("t0")],
     [database |-> JNull, token |-> JNull]}

\* the subcommands of getArgparser and their positional arguments
LegacySubcommands ==
    {"list", "show", "reinit", "customers", "active_subscriptions",
     "subscription_credentials", "support_customers", "mail-add"}
LegacySubArgs(command) ==
    CASE command \in {"list", "reinit"} -> ("model" :> JStr(CliModel))
      [] command = "show" -> ("model" :> JStr(CliModel)) @@ ("id" :> JStr("7"))
      [] command = "mail-add" -> ("email" :> JFile("raw message"))
      [] OTHER -> <<>>

LegacyGlobalArgs(verbose, conn, command) ==
    ("debug" :> JBool(FALSE)) @@ ("verbose" :> JBool(verbose))
    @@ ("url" :> JStr(DefaultUrl)) @@ ("database" :> conn.database)
    @@ ("db_name_endpoint_token" :> conn.token)
    @@ ("username" :> JStr(LegacyUser)) @@ ("apikey" :> JStr(LegacyKey))
    @@ ("command" :> command)

LegacyNamespaces ==
    {LegacyGlobalArgs(v, conn, JStr(c)) @@ LegacySubArgs(c) :
        v \in BOOLEAN, conn \in LegacyConnections, c \in {"show"}}
    \cup {LegacyGlobalArgs(FALSE, conn, JStr(c)) @@ LegacySubArgs(c) :
        conn \in LegacyConnections, c \in LegacySubcommands \ {"show"}}
    \cup {LegacyGlobalArgs(FALSE, conn, JNull) : conn \in LegacyConnections}

\* requests.get of get_db_name(baseurl, token)
get_db_name(baseurl, token) ==
    [method |-> "GET",
     url |-> baseurl \o "/.well-known/odoo-db",
     headers |-> ("X-DB-TOKEN" :> token),
     json |-> JNull]

\* odoo_api.__init__ before self.uid = self._auth()
odoo_api(baseurl, db, username, api_key) ==
    [url |-> baseurl \o "/jsonrpc", db |-> db, username |-> username,
     api_key |-> api_key, uid |-> NoValue]
NoLegacyClient == [url |-> "", db |-> JNull, username |-> "", api_key |-> "", uid |-> NoValue]

\* the requests.post of json_rpc(params)
json_rpc(self, params) ==
    [method |-> "POST",
     url |-> self.url,
     headers |-> ("Content-Type" :> "application/json"),
     json |-> JDict(("jsonrpc" :> JStr("2.0")) @@ ("method" :> JStr("call"))
                    @@ ("params" :> params) @@ ("id" :> JInt(1)))]

\* the request of _auth
_auth(self) ==
    json_rpc(self,
             JDict(("service" :> JStr("common")) @@ ("method" :> JStr("authenticate"))
                   @@ ("args" :> JList(<<self.db, JStr(self.username), JStr(self.api_key),
                                         JDict(<<>>)>>))))

\* execute_kw(model, method, args=None, kwargs=None)
execute_kw(self, model, method, eargs, kwargs) ==
    json_rpc(self,
             JDict(("service" :> JStr("object")) @@ ("method" :> JStr("execute_kw"))
                   @@ ("args" :> JList(<<self.db, self.uid, JStr(self.api_key),
                                         JStr(model), JStr(method),
                                         IF eargs = JNull THEN JList(<<>>) ELSE eargs,
                                         kwargs>>))))

\* the dispatch table of the older client: each method takes the namespace
LegacyMethodMap == LegacySubcommands

\* the request of the method a command maps to
LegacyMethodRequest(command, self, ns) ==
    CASE command = "customers" ->
            execute_kw(self, "res.partner", "search_read",
                       JList(<<JList(<<JList(<<JStr("customer_rank"), JStr(">"), JInt(0)>>)>>)>>),
                       JDict(("fields" :> JList(<<JStr("name"), JStr("email")>>))
                             @@ ("limit" :> JInt(10))))
      [] command = "active_subscriptions" ->
            execute_kw(self, "res.partner", "get_active_subscriptions_api", JNull, JNull)
      [] command = "subscription_credentials" ->
            execute_kw(self, "res.partner", "get_subscription_credentials_api", JNull, JNull)
      [] command = "support_customers" ->
            execute_kw(self, "res.partner", "get_support_customers_api", JNull, JNull)
      [] command = "list" ->
            execute_kw(self, ns["model"].s, "search_read", JList(<<>>),
                       JDict(("fields" :> JList(<<JStr("id"), JStr("name"), JStr("display_name")>>))
                             @@ ("order" :> JStr("id ASC"))))
      [] command = "show" ->
            execute_kw(self, ns["model"].s, "search_read",
                       JList(<<JList(<<JList(<<JStr("id"), JStr("="), ns["id"]>>)>>)>>), JNull)
      [] command = "reinit" ->
            execute_kw(self, ns["model"].s, "recompute_fields", JList(<<>>), JNull)
      [] command = "mail-add" ->
            execute_kw(self, "mail.thread", "message_process",
                       JList(<<JBool(FALSE), JStr(ns["email"].s)>>), JNull)

\* a faulty variant of json_rpcOutcome that returns the result without
\* looking at the error field
json_rpcIgnoresError(r) ==
    CASE r.kind = "ConnectionError" -> [exc |-> "ConnectionError", value |-> NoValue]
      [] r.kind = "response" /\ RaisesForStatus(r.status) ->
            [exc |-> "HTTPError", value |-> NoValue]
      [] r.kind = "response" /\ ~RaisesForStatus(r.status) /\ r.body = NotJson ->
            [exc |-> "JSONDecodeError", value |-> NoValue]
      [] OTHER ->
            IF r.body.kind # "dict" THEN [exc |-> "TypeError", value |-> NoValue]
            ELSE IF "result" \in DOMAIN r.body.d
            THEN [exc |-> "none", value |-> r.body.d["result"]]
            ELSE [exc |-> "KeyError", value |-> NoValue]

\* the outcome of json_rpc after requests.post: raise_for_status, then the
\* test of the error field, then the result field
json_rpcOutcome(r) ==
    CASE r.kind = "ConnectionError" -> [exc |-> "ConnectionError", value |-> NoValue]
      [] r.kind = "response" /\ RaisesForStatus(r.status) ->
            [exc |-> "HTTPError", value |-> NoValue]
      [] r.kind = "response" /\ ~RaisesForStatus(r.status) /\ r.body = NotJson ->
            [exc |-> "JSONDecodeError", value |-> NoValue]
      [] OTHER ->
            IF r.body.kind # "dict" THEN [exc |-> "TypeError", value |-> NoValue]
            ELSE IF "error" \in DOMAIN r.body.d
            THEN [exc |-> "RuntimeError", value |-> NoValue]
            ELSE IF "result" \in DOMAIN r.body.d
            THEN [exc |-> "none", value |-> r.body.d["result"]]
            ELSE [exc |-> "KeyError", value |-> NoValue]

\* _auth: the uid json_rpc returned, or "Login failed" when it is false
_authOutcome(r) ==
    LET o == json_rpcOutcome(r) IN
    IF o.exc # "none" THEN o
    ELSE IF ~Truthy(o.value) THEN [exc |-> "RuntimeError: Login failed", value |-> NoValue]
    ELSE o

\* what the method of a command makes of the outcome of its execute_kw
LegacyMethodOutcome(command, ns, r) ==
    LET o == json_rpcOutcome(r) IN
    IF o.exc = "none" /\ command = "show"
    THEN [exc |-> "none", value |-> ShowResult(ns["verbose"], o.value)]
    ELSE o

\* get_db_name after requests.get: raise_for_status, then the dbname field
get_db_nameOutcome(r) ==
    CASE r.kind = "ConnectionError" -> [exc |-> "ConnectionError", value |-> NoValue]
      [] r.kind = "response" /\ RaisesForStatus(r.status) ->
            [exc |-> "HTTPError", value |-> NoValue]
      [] r.kind = "response" /\ ~RaisesForStatus(r.status) /\ r.body = NotJson ->
            [exc |-> "JSONDecodeError", value |-> NoValue]
      [] OTHER ->
            IF "dbname" \in DOMAIN r.body.d
            THEN [exc |-> "none", value |-> r.body.d["dbname"]]
            ELSE [exc |-> "KeyError", value |-> NoValue]

\* JSON-RPC answers: a result, an error, both, neither, and a body that is no object
JsonRpcError == JDict(("code" :> JInt(200)) @@ ("message" :> JStr("Odoo Server Error")))
JsonRpcBodies(results) ==
    {JDict(("jsonrpc" :> JStr("2.0")) @@ ("id" :> JInt(1)) @@ ("result" :> v)) : v \in results}
    \cup {JDict(("jsonrpc" :> JStr("2.0")) @@ ("id" :> JInt(1)) @@ ("error" :> JsonRpcError)
                @@ ("result" :> v)) : v \in results}
    \cup {JDict(("jsonrpc" :> JStr("2.0")) @@ ("id" :> JInt(1)) @@ ("error" :> JsonRpcError)),
          JDict(("jsonrpc" :> JStr("2.0")) @@ ("id" :> JInt(1))),
          JNull}
AuthBodies == JsonRpcBodies({JInt(2), JBool(FALSE)})
ExecuteBodies(command) ==
    IF command \in {"customers", "list", "show"}
    THEN JsonRpcBodies({JList(<<Partner1>>)})
    ELSE JsonRpcBodies({JBool(TRUE)})
DbNameBodies == {JDict(("dbname" :> JStr("odoodb"))), JDict(<<>>)}

LegacyInit ==
    /\ lpc = "parse"
    /\ largs = <<>>
    /\ ldatabase = JNull
    /\ lodoo = NoLegacyClient
    /\ lnet = <<>>
    /\ lcall = "none"
    /\ lresp = NoResp
    /\ lret = NoValue
    /\ lexc = "none"
    /\ lstdout = <<>>

(***************************************************************************)
(* One run of the program (__main__).                                      *)
(***************************************************************************)
MainInit ==
    /\ pc = "parse"
    /\ args = <<>>
    /\ odoo = NoClient
    /\ net = <<>>
    /\ pending = "none"
    /\ ret = NoValue
    /\ exc = "none"
    /\ stdout = <<>>
    /\ logs = <<>>
    /\ files = <<>>
    /\ idx = 0
    /\ resp = NoResp
    /\ passed = <<>>

FilterIdle ==
    /\ fin = JList(<<>>)
    /\ fout = NoValue
    /\ fprev = NoValue
    /\ fop = "none"
    /\ fmodel = ""
    /\ fverbose = FALSE
    /\ fcount = 0

Init == MainInit /\ FilterIdle /\ LegacyInit

\* the keyword arguments of the dispatched method
Kwargs == cli_wrapper(method_map[args["command"].s], args)
Supported == args["command"].kind = "str" /\ args["command"].s \in DOMAIN method_map
Method == method_map[args["command"].s]

\* parser.parse_args() returns a namespace
Parse ==
    /\ pc = "parse"
    /\ \E ns \in Namespaces : args' = ns
    /\ pc' = "construct"
    /\ UNCHANGED <<odoo, net, pending, ret, exc, stdout, logs, files, idx, resp>>
    /\ UNCHANGED filterVars
    /\ UNCHANGED legacyVars
    /\ UNCHANGED passed

\* parser.parse_args() rejects the command line (an unknown subcommand, no
\* --apikey, a bad directory or JSON literal): usage on stderr, SystemExit(2)
ParseError ==
    /\ pc = "parse"
    /\ exc' = "SystemExit"
    /\ pc' = "exit"
    /\ UNCHANGED <<args, odoo, net, pending, ret, stdout, logs, files, idx, resp>>
    /\ UNCHANGED filterVars
    /\ UNCHANGED legacyVars
    /\ UNCHANGED passed

\* odoo = OdooApi(args.url, args.apikey, database)
Construct ==
    /\ pc = "construct"
    /\ odoo' = OdooApi(args["url"].s, args["apikey"].s, args["database"])
    /\ pc' = "dispatch"
    /\ UNCHANGED <<args, net, pending, ret, exc, stdout, logs, files, idx, resp>>
    /\ UNCHANGED filterVars
    /\ UNCHANGED legacyVars
    /\ UNCHANGED passed

\* the else branch of the dispatch: args.command is not in method_map
DispatchUnsupported ==
    /\ pc = "dispatch"
    /\ ~Supported
    /\ stdout' = stdout \o Unsupported(args["command"])
    /\ pc' = "exit"
    /\ UNCHANGED <<args, odoo, net, pending, ret, exc, logs, files, idx, resp>>
    /\ UNCHANGED filterVars
    /\ UNCHANGED legacyVars
    /\ UNCHANGED passed

\* cli_wrapper: method(**kwargs) lacks a parameter that has no default
DispatchTypeError ==
    /\ pc = "dispatch"
    /\ Supported
    /\ BindFails(Method, Kwargs)
    /\ passed' = Kwargs
    /\ exc' = "TypeError"
    /\ pc' = "exit"
    /\ UNCHANGED <<args, odoo, net, pending, ret, stdout, logs, files, idx, resp>>
    /\ UNCHANGED filterVars
    /\ UNCHANGED legacyVars

\* cli_wrapper calls a method that issues one request
Invoke ==
    /\ pc = "dispatch"
    /\ Supported
    /\ Method # "config_dump"
    /\ ~BindFails(Method, Kwargs)
    /\ passed' = Kwargs
    /\ net' = Append(net, MethodRequest(Method, odoo, passed'))
    /\ pending' = Method
    /\ pc' = "call"
    /\ UNCHANGED <<args, odoo, ret, exc, stdout, logs, files, idx, resp>>
    /\ UNCHANGED filterVars
    /\ UNCHANGED legacyVars

\* the request is answered and the method returns; __main__ prints the result
MethodReturns ==
    /\ pc = "call"
    /\ \E r \in Responses(BodiesFor(pending)) :
          /\ MethodOutcome(pending, passed, r).exc = "none"
          /\ resp' = r
          /\ ret' = MethodOutcome(pending, passed, r).value
    /\ stdout' = Append(stdout, [kind |-> "pprint", text |-> "", data |-> ret'])
    /\ pending' = "none"
    /\ pc' = "exit"
    /\ UNCHANGED <<args, odoo, net, exc, logs, files, idx>>
    /\ UNCHANGED filterVars
    /\ UNCHANGED legacyVars
    /\ UNCHANGED passed

\* the request fails or its answer cannot be used: the exception ends the program
MethodRaises ==
    /\ pc = "call"
    /\ \E r \in Responses(BodiesFor(pending)) :
          /\ MethodOutcome(pending, passed, r).exc # "none"
          /\ resp' = r
          /\ exc' = MethodOutcome(pending, passed, r).exc
    /\ pending' = "none"
    /\ pc' = "exit"
    /\ UNCHANGED <<args, odoo, net, ret, stdout, logs, files, idx>>
    /\ UNCHANGED filterVars
    /\ UNCHANGED legacyVars
    /\ UNCHANGED passed

(***************************************************************************)
(* config_dump(json_format=None, output_directory=None), one action per    *)
(* step of its loop.                                                       *)
(***************************************************************************)
\* cli_wrapper calls config_dump: the loop starts at the first resource
ConfigDumpStart ==
    /\ pc = "dispatch"
    /\ Supported
    /\ Method = "config_dump"
    /\ passed' = Kwargs
    /\ pending' = "config_dump"
    /\ idx' = 1
    /\ pc' = "dump"
    /\ UNCHANGED <<args, odoo, net, ret, exc, stdout, logs, files, resp>>
    /\ UNCHANGED filterVars
    /\ UNCHANGED legacyVars

\* data = self._dump(model, domain=domain, order=order): the request is sent
ConfigDumpFetch ==
    /\ pc = "dump"
    /\ idx <= Len(models)
    /\ net' = Append(net, DumpRequest(odoo, models[idx]))
    /\ pc' = "dump_wait"
    /\ UNCHANGED <<args, odoo, pending, ret, exc, stdout, logs, files, idx, resp>>
    /\ UNCHANGED filterVars
    /\ UNCHANGED legacyVars
    /\ UNCHANGED passed

\* the fetch raises an exception the except clause catches: logged, next resource
ConfigDumpFailed ==
    /\ pc = "dump_wait"
    /\ Len(logs) < MaxFailures
    /\ \E r \in Responses(DumpBodies(models[idx])) :
          /\ _callOutcome(r).exc # "none"
          /\ Caught(_callOutcome(r).exc)
          /\ logs' = Append(logs, [level |-> "error", model |-> models[idx],
                                   exc |-> _callOutcome(r).exc, status |-> r.status])
    /\ idx' = idx + 1
    /\ pc' = "dump"
    /\ UNCHANGED <<args, odoo, net, pending, ret, exc, stdout, files, resp>>
    /\ UNCHANGED filterVars
    /\ UNCHANGED legacyVars
    /\ UNCHANGED passed

\* the fetch raises an exception the except clause does not catch
ConfigDumpRaises ==
    /\ pc = "dump_wait"
    /\ \E r \in Responses(DumpBodies(models[idx])) :
          /\ _callOutcome(r).exc # "none"
          /\ ~Caught(_callOutcome(r).exc)
          /\ exc' = _callOutcome(r).exc
    /\ pending' = "none"
    /\ pc' = "exit"
    /\ UNCHANGED <<args, odoo, net, ret, stdout, logs, files, idx, resp>>
    /\ UNCHANGED filterVars
    /\ UNCHANGED legacyVars
    /\ UNCHANGED passed

\* the else clause: the data is cleaned and written to the file or printed
ConfigDumpOutput ==
    /\ pc = "dump_wait"
    /\ \E r \in Responses(DumpBodies(models[idx])) :
          /\ _callOutcome(r).exc = "none"
          /\ LET model == models[idx]
                 result == _cleanup_dump_data(model, _callOutcome(r).value)
                 format == IF Truthy(Param(passed, "json_format")) THEN "json" ELSE "pformat"
                 dir == Param(passed, "output_directory")
             IN  IF Sink(dir) = "file"
                 THEN /\ files' = ((dir.s \o "/" \o model \o ".json")
                                      :> [format |-> format, data |-> result]) @@ files
                      /\ UNCHANGED stdout
                 ELSE /\ stdout' = stdout \o
                           <<[kind |-> "print", text |-> "### " \o model, data |-> JNull],
                             [kind |-> IF format = "json" THEN "print_json" ELSE "pprint",
                              text |-> "", data |-> result]>>
                      /\ UNCHANGED files
    /\ idx' = idx + 1
    /\ pc' = "dump"
    /\ UNCHANGED <<args, odoo, net, pending, ret, exc, logs, resp>>
    /\ UNCHANGED filterVars
    /\ UNCHANGED legacyVars
    /\ UNCHANGED passed

\* the loop is over: return True, which __main__ prints
ConfigDumpReturn ==
    /\ pc = "dump"
    /\ idx > Len(models)
    /\ ret' = JBool(TRUE)
    /\ stdout' = Append(stdout, [kind |-> "pprint", text |-> "", data |-> JBool(TRUE)])
    /\ pending' = "none"
    /\ pc' = "exit"
    /\ UNCHANGED <<args, odoo, net, exc, logs, files, idx, resp>>
    /\ UNCHANGED filterVars
    /\ UNCHANGED legacyVars
    /\ UNCHANGED passed

Next ==
    \/ Parse
    \/ ParseError
    \/ Construct
    \/ DispatchUnsupported
    \/ DispatchTypeError
    \/ Invoke
    \/ MethodReturns
    \/ MethodRaises
    \/ ConfigDumpStart
    \/ ConfigDumpFetch
    \/ ConfigDumpFailed
    \/ ConfigDumpRaises
    \/ ConfigDumpOutput
    \/ ConfigDumpReturn

Spec == Init /\ [][Next]_vars

(***************************************************************************)
(* One run of the older JSON-RPC client (__main__ of odoo-api-jsonrpc.py). *)
(***************************************************************************)
LegacySupported == largs["command"].kind = "str" /\ largs["command"].s \in LegacyMethodMap

\* parser.parse_args() returns a namespace
LegacyParse ==
    /\ lpc = "parse"
    /\ \E ns \in LegacyNamespaces : largs' = ns
    /\ lpc' = "database"
    /\ UNCHANGED <<ldatabase, lodoo, lnet, lcall, lresp, lret, lexc, lstdout>>
    /\ UNCHANGED <<mainVars, filterVars>>

\* parser.parse_args() rejects the command line: SystemExit(2)
LegacyParseError ==
    /\ lpc = "parse"
    /\ lexc' = "SystemExit"
    /\ lpc' = "exit"
    /\ UNCHANGED <<largs, ldatabase, lodoo, lnet, lcall, lresp, lret, lstdout>>
    /\ UNCHANGED <<mainVars, filterVars>>

\* neither --database nor --db_name_endpoint_token: parser.error
LegacyDatabaseMissing ==
    /\ lpc = "database"
    /\ ~Truthy(largs["database"]) /\ ~Truthy(largs["db_name_endpoint_token"])
    /\ lexc' = "SystemExit"
    /\ lpc' = "exit"
    /\ UNCHANGED <<largs, ldatabase, lodoo, lnet, lcall, lresp, lret, lstdout>>
    /\ UNCHANGED <<mainVars, filterVars>>

\* database = args.database
LegacyDatabaseGiven ==
    /\ lpc = "database"
    /\ Truthy(largs["database"])
    /\ ldatabase' = largs["database"]
    /\ lpc' = "auth"
    /\ UNCHANGED <<largs, lodoo, lnet, lcall, lresp, lret, lexc, lstdout>>
    /\ UNCHANGED <<mainVars, filterVars>>

\* database = get_db_name(args.url, args.db_name_endpoint_token): the request
LegacyDetectDatabase ==
    /\ lpc = "database"
    /\ ~Truthy(largs["database"]) /\ Truthy(largs["db_name_endpoint_token"])
    /\ lnet' = Append(lnet, get_db_name(largs["url"].s, largs["db_name_endpoint_token"].s))
    /\ lcall' = "get_db_name"
    /\ lpc' = "detect"
    /\ UNCHANGED <<largs, ldatabase, lodoo, lresp, lret, lexc, lstdout>>
    /\ UNCHANGED <<mainVars, filterVars>>

\* get_db_name returns the dbname field of the answer
LegacyDetected ==
    /\ lpc = "detect"
    /\ \E r \in Responses(DbNameBodies) :
          /\ get_db_nameOutcome(r).exc = "none"
          /\ lresp' = r
          /\ ldatabase' = get_db_nameOutcome(r).value
    /\ lpc' = "auth"
    /\ UNCHANGED <<largs, lodoo, lnet, lcall, lret, lexc, lstdout>>
    /\ UNCHANGED <<mainVars, filterVars>>

\* get_db_name raises: the exception ends the program
LegacyDetectRaises ==
    /\ lpc = "detect"
    /\ \E r \in Responses(DbNameBodies) :
          /\ get_db_nameOutcome(r).exc # "none"
          /\ lresp' = r
          /\ lexc' = get_db_nameOutcome(r).exc
    /\ lpc' = "exit"
    /\ UNCHANGED <<largs, ldatabase, lodoo, lnet, lcall, lret, lstdout>>
    /\ UNCHANGED <<mainVars, filterVars>>

\* odoo_api(args.url, database, args.username, args.apikey): the fields are
\* set and _auth sends the authenticate request
LegacyAuthSend ==
    /\ lpc = "auth"
    /\ lodoo' = odoo_api(largs["url"].s, ldatabase, largs["username"].s, largs["apikey"].s)
    /\ lnet' = Append(lnet, _auth(lodoo'))
    /\ lcall' = "authenticate"
    /\ lpc' = "auth_wait"
    /\ UNCHANGED <<largs, ldatabase, lresp, lret, lexc, lstdout>>
    /\ UNCHANGED <<mainVars, filterVars>>

\* _auth returns the uid: the client is constructed
LegacyAuthReturns ==
    /\ lpc = "auth_wait"
    /\ \E r \in Responses(AuthBodies) :
          /\ _authOutcome(r).exc = "none"
          /\ lresp' = r
          /\ lodoo' = [lodoo EXCEPT !.uid = _authOutcome(r).value]
    /\ lpc' = "dispatch"
    /\ UNCHANGED <<largs, ldatabase, lnet, lcall, lret, lexc, lstdout>>
    /\ UNCHANGED <<mainVars, filterVars>>

\* json_rpc or _auth raises: the exception leaves the constructor and the program
LegacyAuthRaises ==
    /\ lpc = "auth_wait"
    /\ \E r \in Responses(AuthBodies) :
          /\ _authOutcome(r).exc # "none"
          /\ lresp' = r
          /\ lexc' = _authOutcome(r).exc
    /\ lpc' = "exit"
    /\ UNCHANGED <<largs, ldatabase, lodoo, lnet, lcall, lret, lstdout>>
    /\ UNCHANGED <<mainVars, filterVars>>

\* the else branch of the dispatch
LegacyUnsupported ==
    /\ lpc = "dispatch"
    /\ ~LegacySupported
    /\ lstdout' = lstdout \o Unsupported(largs["command"])
    /\ lpc' = "exit"
    /\ UNCHANGED <<largs, ldatabase, lodoo, lnet, lcall, lresp, lret, lexc>>
    /\ UNCHANGED <<mainVars, filterVars>>

\* method_map[args.command](args): the method sends its execute_kw request
LegacyInvoke ==
    /\ lpc = "dispatch"
    /\ LegacySupported
    /\ lnet' = Append(lnet, LegacyMethodRequest(largs["command"].s, lodoo, largs))
    /\ lcall' = "execute_kw"
    /\ lpc' = "call"
    /\ UNCHANGED <<largs, ldatabase, lodoo, lresp, lret, lexc, lstdout>>
    /\ UNCHANGED <<mainVars, filterVars>>

\* execute_kw returns the result; __main__ prints what the method returns
LegacyReturns ==
    /\ lpc = "call"
    /\ \E r \in Responses(ExecuteBodies(largs["command"].s)) :
          /\ LegacyMethodOutcome(largs["command"].s, largs, r).exc = "none"
          /\ lresp' = r
          /\ lret' = LegacyMethodOutcome(largs["command"].s, largs, r).value
    /\ lstdout' = Append(lstdout, [kind |-> "pprint", text |-> "", data |-> lret'])
    /\ lpc' = "exit"
    /\ UNCHANGED <<largs, ldatabase, lodoo, lnet, lcall, lexc>>
    /\ UNCHANGED <<mainVars, filterVars>>

\* json_rpc raises: the exception ends the program
LegacyRaises ==
    /\ lpc = "call"
    /\ \E r \in Responses(ExecuteBodies(largs["command"].s)) :
          /\ LegacyMethodOutcome(largs["command"].s, largs, r).exc # "none"
          /\ lresp' = r
          /\ lexc' = LegacyMethodOutcome(largs["command"].s, largs, r).exc
    /\ lpc' = "exit"
    /\ UNCHANGED <<largs, ldatabase, lodoo, lnet, lcall, lret, lstdout>>
    /\ UNCHANGED <<mainVars, filterVars>>

LegacyNext ==
    \/ LegacyParse
    \/ LegacyParseError
    \/ LegacyDatabaseMissing
    \/ LegacyDatabaseGiven
    \/ LegacyDetectDatabase
    \/ LegacyDetected
    \/ LegacyDetectRaises
    \/ LegacyAuthSend
    \/ LegacyAuthReturns
    \/ LegacyAuthRaises
    \/ LegacyUnsupported
    \/ LegacyInvoke
    \/ LegacyReturns
    \/ LegacyRaises

LegacySpec == Init /\ [][LegacyNext]_vars

(***************************************************************************)
(* FilterSpec: show's filter and _cleanup_dump_data applied, once and then *)
(* once more to their own output, to every list of at most MaxRecords      *)
(* records of one profile.                                                 *)
(***************************************************************************)
\* the values a field of a search_read record takes: every JSON type, empty and not
FieldValues ==
    {JNull, JBool(FALSE), JBool(TRUE), JInt(0), JInt(1), JFloat(0), JFloat(1),
     JStr(""), JStr("x"), JList(<<>>), JList(<<JStr("EU")>>), JDict(<<>>)}

\* the lists of country group codes of at most MaxLen elements
CodeLists ==
    UNION {{JList(l) : l \in [1..n -> {JStr(c) : c \in Codes}]} : n \in 0..MaxLen}

\* the dicts with the keys of d, or without some of them
Optional(key, values) == {<<>>} \cup {(key :> v) : v \in values}

\* records of any model, of account.journal and of res.users
PlainRecords ==
    {JDict(a) : a \in Optional("name", FieldValues)}
    \cup {JDict(a @@ ("id" :> JInt(1))) : a \in Optional("name", {JStr(""), JStr("x")})}
JournalRecords ==
    {JDict(a @@ b) : a \in Optional("kanban_dashboard_graph", {JStr("[graph]"), JBool(FALSE)}),
                     b \in Optional("id", {JInt(1)})}
UserRecords ==
    {JDict(a) : a \in Optional("fiscal_country_group_codes", CodeLists)}
    \cup {JDict(a @@ ("id" :> JInt(1))) :
             a \in Optional("fiscal_country_group_codes", {JList(<<JStr("SEPA"), JStr("EU")>>)})}

\* a record list holds plain records, journal records or user records
RecordProfiles == {PlainRecords, JournalRecords, UserRecords}

FilterModels == {"account.journal", "res.users", "res.company"}

\* the record list grows by one record of its profile, up to MaxRecords
AddRecord ==
    /\ fop = "none"
    /\ Len(fin.items) < MaxRecords
    /\ \E profile \in RecordProfiles :
          /\ \A i \in DOMAIN fin.items : fin.items[i] \in profile
          /\ \E r \in profile : fin' = JList(Append(fin.items, r))
    /\ UNCHANGED <<fout, fprev, fop, fmodel, fverbose, fcount>>
    /\ UNCHANGED mainVars
    /\ UNCHANGED legacyVars

\* show(model, id, verbose) on the search_read result fin
ApplyShow ==
    /\ fop = "none"
    /\ \E v \in BOOLEAN :
          /\ fverbose' = v
          /\ fout' = ShowResult(JBool(v), fin)
    /\ fprev' = fin
    /\ fop' = "show"
    /\ fcount' = 1
    /\ UNCHANGED <<fin, fmodel>>
    /\ UNCHANGED mainVars
    /\ UNCHANGED legacyVars

\* the sparse filter of show applied to what show(verbose=false) returned
ApplySparseAgain ==
    /\ fop = "show"
    /\ ~fverbose
    /\ fcount = 1
    /\ fout' = SparseFilter(fout)
    /\ fprev' = fout
    /\ fcount' = 2
    /\ UNCHANGED <<fin, fop, fmodel, fverbose>>
    /\ UNCHANGED mainVars
    /\ UNCHANGED legacyVars

\* _cleanup_dump_data(model, data) on the data fin
ApplyCleanup ==
    /\ fop = "none"
    /\ \E m \in FilterModels :
          /\ fmodel' = m
          /\ fout' = _cleanup_dump_data(m, fin)
    /\ fprev' = fin
    /\ fop' = "cleanup"
    /\ fcount' = 1
    /\ UNCHANGED <<fin, fverbose>>
    /\ UNCHANGED mainVars
    /\ UNCHANGED legacyVars

\* _cleanup_dump_data applied to its own output
ApplyCleanupAgain ==
    /\ fop = "cleanup"
    /\ fcount = 1
    /\ fout' = _cleanup_dump_data(fmodel, fout)
    /\ fprev' = fout
    /\ fcount' = 2
    /\ UNCHANGED <<fin, fop, fmodel, fverbose>>
    /\ UNCHANGED mainVars
    /\ UNCHANGED legacyVars

FilterNext ==
    \/ AddRecord
    \/ ApplyShow
    \/ ApplySparseAgain
    \/ ApplyCleanup
    \/ ApplyCleanupAgain

FilterSpec == Init /\ [][FilterNext]_vars

(***************************************************************************)
(* The response filters (FilterSpec).                                      *)
(***************************************************************************)
\* the values the sparse filter is said to remove: "", [], null, 0 and 0.0
RemovedValues == {JStr(""), JList(<<>>), JNull, JInt(0), JFloat(0)}

\* C2: show(verbose=false) removes from each record exactly the keys whose
\* value is "", [], null, 0 or 0.0, keeps every other key (a key whose value
\* is false too) with its value, and keeps the number and order of records.
C2_SparseRemovesExactlyEmptyValues ==
    (fop = "show" /\ ~fverbose /\ fcount = 1) =>
        /\ Len(fout.items) = Len(fin.items)
        /\ \A i \in DOMAIN fin.items :
              LET in == fin.items[i].d
                  out == fout.items[i].d
              IN  /\ DOMAIN out = {k \in DOMAIN in : in[k] \notin RemovedValues}
                  /\ \A k \in DOMAIN out : out[k] = in[k]

\* C3: show(verbose=true) returns the search_read result as it is, and the
\* sparse filter applied to the result of show(verbose=false) changes nothing.
C3_VerboseUnfilteredSparseFixedPoint ==
    /\ (fop = "show" /\ fverbose) => fout = fin
    /\ (fop = "show" /\ ~fverbose /\ fcount = 2) => fout = fprev

\* the sparse filter was applied again to a result from which show removed a key
C3_Witness ==
    /\ fop = "show" /\ ~fverbose /\ fcount = 2
    /\ fprev # fin

\* C4: for account.journal no record of the output of _cleanup_dump_data has
\* the field kanban_dashboard_graph, and a second application returns what
\* the first returned.
C4_JournalGraphRemovedIdempotent ==
    (fop = "cleanup" /\ fmodel = "account.journal") =>
        /\ \A i \in DOMAIN fout.items : "kanban_dashboard_graph" \notin DOMAIN fout.items[i].d
        /\ fcount = 2 => fout = fprev

\* the filter ran twice on journal records of which one had the graph field
C4_Witness ==
    /\ fop = "cleanup" /\ fmodel = "account.journal" /\ fcount = 2
    /\ \E i \in DOMAIN fin.items : "kanban_dashboard_graph" \in DOMAIN fin.items[i].d

IsAscending(l) ==
    \A i, j \in DOMAIN l : i < j => CodeRank[l[i].s] <= CodeRank[l[j].s]
Occurrences(l, c) == Cardinality({i \in DOMAIN l : l[i] = JStr(c)})
IsPermutation(a, b) ==
    /\ Len(a) = Len(b)
    /\ \A c \in Codes : Occurrences(a, c) = Occurrences(b, c)

\* C5: for res.users a record with the field fiscal_country_group_codes gets
\* that list sorted ascending, a permutation of the list it had, and a record
\* without the field is returned unchanged.
C5_UsersCodesSorted ==
    (fop = "cleanup" /\ fmodel = "res.users") =>
        /\ Len(fout.items) = Len(fprev.items)
        /\ \A i \in DOMAIN fprev.items :
              LET in == fprev.items[i].d
                  out == fout.items[i].d
              IN  IF "fiscal_country_group_codes" \in DOMAIN in
                  THEN /\ "fiscal_country_group_codes" \in DOMAIN out
                       /\ out["fiscal_country_group_codes"].kind = "list"
                       /\ IsAscending(out["fiscal_country_group_codes"].items)
                       /\ IsPermutation(out["fiscal_country_group_codes"].items,
                                        in["fiscal_country_group_codes"].items)
                  ELSE out = in

\* the filter ran on user records of which one had its codes out of order
C5_Witness ==
    /\ fop = "cleanup" /\ fmodel = "res.users" /\ fcount = 1
    /\ \E i \in DOMAIN fin.items :
          /\ "fiscal_country_group_codes" \in DOMAIN fin.items[i].d
          /\ ~IsAscending(fin.items[i].d["fiscal_country_group_codes"].items)
          /\ fout.items[i] # fin.items[i]

SameExcept(in, out, key) ==
    /\ (DOMAIN out) \ {key} = (DOMAIN in) \ {key}
    /\ \A f \in (DOMAIN in) \ {key} : out[f] = in[f]

\* C6: _cleanup_dump_data returns its input for a resource other than
\* account.journal and res.users, changes no field but kanban_dashboard_graph
\* for account.journal and none but fiscal_country_group_codes for res.users,
\* and keeps the number and the order of the records for every resource.
C6_CleanupChangesNothingElse ==
    (fop = "cleanup") =>
        /\ Len(fout.items) = Len(fprev.items)
        /\ \A i \in DOMAIN fprev.items :
              LET in == fprev.items[i].d
                  out == fout.items[i].d
              IN  /\ fout.items[i].kind = "dict"
                  /\ CASE fmodel = "account.journal" ->
                             SameExcept(in, out, "kanban_dashboard_graph")
                       [] fmodel = "res.users" ->
                             SameExcept(in, out, "fiscal_country_group_codes")
                       [] OTHER -> out = in
        /\ fmodel \notin {"account.journal", "res.users"} => fout = fprev

\* the filter ran for another resource on records that have the two fields
C6_Witness ==
    /\ fop = "cleanup" /\ fmodel = "res.company" /\ fcount = 1
    /\ \E i \in DOMAIN fin.items : "kanban_dashboard_graph" \in DOMAIN fin.items[i].d
    /\ fout = fin

(***************************************************************************)
(* The client and the dispatch (Spec).                                     *)
(***************************************************************************)
Parsed == DOMAIN args # {}
Command == IF Parsed /\ args["command"].kind = "str" THEN args["command"].s ELSE "None"

\* C1: config_dump runs to its end when fetches fail with a transport error
\* (an error status or a connection failure): in a run that met no other
\* failure, no exception leaves config_dump, every resource of the list was
\* requested, and each failure is a logged line.
C1_ExportSurvivesTransportErrors ==
    (pc = "exit" /\ Command = "config-dump" /\ exc \in {"none", "HTTPError", "ConnectionError"}) =>
        /\ exc = "none"
        /\ Len(net) = Len(models)
        /\ ret = JBool(TRUE)

C8_DatabasesUnauthenticatedGet ==
    (Command = "databases" /\ net # <<>>) =>
        /\ Len(net) = 1
        /\ net[1].url = DefaultUrl \o "/web/database/list"
        /\ net[1].method = "GET"
        /\ "Authorization" \notin DOMAIN net[1].headers
        /\ (pc = "exit" /\ exc = "none") => ret = resp.body.d["result"]

\* the resource, operation and named parameters of the commands that return
\* the result of one call()
CallCommands == {"call", "identity", "reinit", "create"}
CallResource == IF Command = "identity" THEN "res.users" ELSE args["model"].s
CallOperation ==
    CASE Command = "identity" -> "context_get"
      [] Command = "reinit" -> "recompute_fields"
      [] Command = "create" -> "create"
      [] Command = "call" -> args["method"].s
DictOrEmpty(v) == IF v.kind = "dict" THEN v.d ELSE <<>>
CallParams ==
    CASE Command = "call" ->
            LET j == DictOrEmpty(args["json"])
                a == DictOrEmpty(args["args"])
            IN  [k \in (DOMAIN j) \cup (DOMAIN a) |-> IF k \in DOMAIN a THEN a[k] ELSE j[k]]
      [] Command = "create" -> ("vals_list" :> JList(<<args["args"]>>))
      [] OTHER -> <<>>

CallIssuesOnePost ==
    /\ Len(net) = 1
    /\ net[1].method = "POST"
    /\ net[1].url = DefaultUrl \o "/json/2/" \o CallResource \o "/" \o CallOperation
    /\ net[1].json = JDict(CallParams)

DatabaseGiven == args["database"].kind = "str" /\ args["database"].s # ""
HeadersAsConfigured(h) ==
    /\ {"Authorization", "User-Agent"} \subseteq DOMAIN h
    /\ DOMAIN h \subseteq {"Authorization", "User-Agent", "X-Odoo-Database"}
    /\ h["Authorization"] = "bearer " \o args["apikey"].s
    /\ h["User-Agent"] # ""
    /\ "X-Odoo-Database" \in DOMAIN h <=> DatabaseGiven
    /\ DatabaseGiven => h["X-Odoo-Database"] = args["database"].s

\* C10: the construction of the client issues no request, and from then on
\* base URL, API key, database and headers stay what the construction made
\* of the options: every request carries Authorization: bearer <apiKey> and a
\* User-Agent, and X-Odoo-Database with the name exactly when a database was
\* given.
C10_HeadersFixedAtConstruction ==
    /\ pc \in {"parse", "construct"} => (odoo = NoClient /\ net = <<>>)
    /\ pc = "dispatch" => net = <<>>
    /\ (Parsed /\ pc \notin {"parse", "construct"}) =>
          /\ odoo.baseurl = args["url"].s
          /\ odoo.apiurl = args["url"].s \o "/json/2"
          /\ odoo.api_key = args["apikey"].s
          /\ odoo.db = args["database"]
          /\ HeadersAsConfigured(odoo.headers)
    /\ \A i \in DOMAIN net : HeadersAsConfigured(net[i].headers)

\* several requests were sent by a client constructed with a database
C10_Witness ==
    /\ pc = "exit" /\ Parsed /\ DatabaseGiven
    /\ Len(net) > 1
    /\ "X-Odoo-Database" \in DOMAIN net[Len(net)].headers

(***************************************************************************)
(* The bulk export (Spec).                                                 *)
(***************************************************************************)
\* config_dump was called: it is in its loop, or the program ended after it
InConfigDump == Parsed /\ Command = "config-dump" /\ pc \in {"dump", "dump_wait", "exit"}
\* config_dump returned
ConfigDumpReturned == InConfigDump /\ pc = "exit" /\ exc = "none"
\* the resources logged as failed, and the positions of those fetched and output
FailedModels == {logs[i].model : i \in DOMAIN logs}
FetchedIdx == {i \in 1..(idx - 1) : models[i] \notin FailedModels}
ExportFormat == IF args["json_format"] = JBool(TRUE) THEN "json" ELSE "pformat"
IsCleanedDump(model, data) == \E b \in DumpBodies(model) : data = _cleanup_dump_data(model, b)

InstalledModules == JList(<<JList(<<JStr("state"), JStr("="), JStr("installed")>>)>>)
ExportDomain(model) == IF model = "ir.module.module" THEN InstalledModules ELSE JList(<<>>)
\* the resources handled so far: output, or logged as failed
HandledCount == Cardinality(FetchedIdx) + Len(logs)

\* C14: the requests of the bulk export are, in every state, the search_read
\* requests of the first resources of the list, one per resource and in list
\* order, each with order 'id ASC' and with the domain
\* [[state, =, installed]] for ir.module.module and [] for the others; the
\* request of a resource is sent only when every resource before it was
\* output or logged as failed, and an export that returns has requested
\* every resource once.
C14_ExportOneSearchReadPerResourceInOrder ==
    InConfigDump =>
        /\ Len(net) <= Len(models)
        /\ \A i \in DOMAIN net :
              /\ net[i].method = "POST"
              /\ net[i].url = DefaultUrl \o "/json/2/" \o models[i] \o "/search_read"
              /\ DOMAIN net[i].json.d = {"domain", "fields", "order"}
              /\ net[i].json.d["order"] = JStr("id ASC")
              /\ net[i].json.d["domain"] = ExportDomain(models[i])
              /\ net[i].json.d["fields"] = JNull
        /\ pc = "dump" => (Len(net) = idx - 1 /\ HandledCount = Len(net))
        /\ pc = "dump_wait" => (Len(net) = idx /\ HandledCount = Len(net) - 1)
        /\ (pc = "exit" /\ exc # "none") => (Len(net) = idx /\ HandledCount = Len(net) - 1)
        /\ ConfigDumpReturned => (Len(net) = Len(models) /\ HandledCount = Len(models))

\* an export returned after one fetch was logged as failed: every resource,
\* ir.module.module with its domain among them, was requested
C14_Witness ==
    /\ ConfigDumpReturned
    /\ Len(net) = Len(models)
    /\ Len(logs) = 1
    /\ net[2].json.d["domain"] = InstalledModules
    /\ net[Len(models)].url = DefaultUrl \o "/json/2/res.users.apikeys/search_read"

\* cli_wrapper called (or tried to call) the method of the command
Dispatched == Parsed /\ Supported /\ pc \notin {"parse", "construct", "dispatch"}
GlobalOptions == {"url", "apikey", "database", "debug", "command"}

\* C15: the keyword arguments cli_wrapper calls the method with are exactly
\* the fields of the namespace whose name is a parameter the method declares
\* and whose value is not None, each with its value; url, apikey, database,
\* debug and command, which no method declares, are never among them.
C15_DispatchPassesDeclaredNonNone ==
    Dispatched =>
        /\ DOMAIN passed \subseteq DOMAIN args
        /\ \A k \in DOMAIN args :
              (k \in DOMAIN passed) <=> (k \in Signature(Method).params /\ args[k] # JNull)
        /\ \A k \in DOMAIN passed : passed[k] = args[k]
        /\ DOMAIN passed \cap GlobalOptions = {}

\* call was run with --args and without --json: json, declared by raw, is
\* None and is not passed
C15_Witness ==
    /\ Dispatched /\ pc = "exit" /\ Command = "call"
    /\ args["json"] = JNull /\ args["args"] # JNull
    /\ DOMAIN passed = {"model", "method", "args"}

\* C16: for every command of the dispatch table and every namespace the
\* parser returns for it, cli_wrapper passes every parameter the method
\* requires: the method is invoked and no TypeError for a missing parameter
\* ends the program.
C16_DispatchSuppliesRequired ==
    /\ exc # "TypeError"
    /\ Dispatched => Signature(Method).required \subseteq DOMAIN passed

\* C13: whenever a request has been sent, the API key of the client that
\* sent it (the --apikey of the run) is a non-empty string.
C13_ApiKeyNonEmptyBeforeCall ==
    net # <<>> =>
        /\ odoo.api_key # ""
        /\ args["apikey"].kind = "str" /\ args["apikey"].s # ""
        /\ \A i \in DOMAIN net : net[i].headers["Authorization"] # "bearer "

(***************************************************************************)
(* The older JSON-RPC client (LegacySpec).                                 *)
(***************************************************************************)
\* the last answer was given to a json_rpc, with a status raise_for_status
\* lets pass and a body that has an error field
ErrorFieldAnswered ==
    /\ lcall \in {"authenticate", "execute_kw"}
    /\ lpc \notin {"auth_wait", "call"}
    /\ lresp.kind = "response" /\ lresp.status < 400
    /\ lresp.body.kind = "dict" /\ "error" \in DOMAIN lresp.body.d

\* C12: an answer to json_rpc whose body has an error field is a failure,
\* with status 200 too and whether or not the body has a result as well:
\* json_rpc raises RuntimeError, so _auth sets no uid (the client is not
\* constructed), execute_kw returns no value, nothing is printed and no
\* further request is sent.
C12_ErrorFieldIsFailure ==
    ErrorFieldAnswered =>
        /\ lpc = "exit"
        /\ lexc = "RuntimeError"
        /\ lret = NoValue
        /\ lstdout = <<>>
        /\ lcall = "authenticate" => lodoo.uid = NoValue
        /\ lnet[Len(lnet)].method = "POST"
        /\ lnet[Len(lnet)].json.d["params"].d["method"] =
              (IF lcall = "authenticate" THEN JStr("authenticate") ELSE JStr("execute_kw"))

\* an execute_kw was answered with status 200 and a body with both an error
\* and a result
C12_Witness ==
    /\ lcall = "execute_kw"
    /\ lresp.kind = "response" /\ lresp.status = 200
    /\ lresp.body.kind = "dict"
    /\ {"error", "result"} \subseteq DOMAIN lresp.body.d
    /\ lexc = "RuntimeError"

====
